---- MODULE Spec2Model ----
(***************************************************************************)
(* A model of Flipper Script/flip.py: the clipboard watcher, the item      *)
(* classifier and line filter, the two numeric extractors, the two          *)
(* evaluators and the driver loop, together with an external writer to the  *)
(* shared clipboard and the user's interrupt signal.                        *)
(*                                                                          *)
(* Texts are TLA+ strings, handled character by character with Len, SubSeq  *)
(* and \o, so the substring and regular-expression tests of the code are    *)
(* computed and not assumed.  Numbers are exact rationals <<num, den>> in   *)
(* lowest terms: Python's int and float results are modelled by their       *)
(* mathematical value (binary rounding of the float is not modelled).       *)
(* Input texts are made of printable characters other than the quote and    *)
(* the backslash, so that repr() of a token is the token between quotes.    *)
(***************************************************************************)
EXTENDS Integers, Sequences, FiniteSets, TLC

VARIABLES
    clipboard,            \* the OS clipboard: [text, id]; id is a ghost tag of the write that put it there (0: the program's own clear, or the content at start)
    pc,                   \* where the driver is
    last_clipboard_text,  \* monitor_clipboard's baseline
    data_block,           \* the text monitor_clipboard returned
    block_id,             \* ghost: the write id of data_block
    data,                 \* the filtered token lines (main's data)
    checks,               \* (esBool, chestBool, martBool, eleBool)
    extracted_numbers,    \* the extractor's result in main
    fac,                  \* the bonus factor flippid_armor chose in this cycle
    result,               \* what the evaluator returned in this cycle
    output,               \* the last line the driver printed about a cycle or its end
    exit_code,            \* the process's exit status once it has ended
    interrupted,          \* ghost: whether an interrupt signal was delivered
    nwrites,              \* ghost: number of external writes so far
    returned,             \* ghost: the sequence of write ids monitor_clipboard returned
    parsed,               \* ghost: the sequence of write ids whose block was parsed
    erased,               \* ghost: write ids that were in the clipboard when clear_clipboard overwrote it, other than the one just returned
    absorbed              \* ghost: write ids that were in the clipboard when monitor_clipboard read its baseline

vars == <<clipboard, pc, last_clipboard_text, data_block, block_id, data, checks,
          extracted_numbers, fac, result, output, exit_code, interrupted,
          nwrites, returned, parsed, erased, absorbed>>

-----------------------------------------------------------------------------
(* Bounds of the model *)

MaxWrites == 4
MaxLines == 3
MaxDamage == 2
MaxArmor == 2

-----------------------------------------------------------------------------
(* Strings *)

Digits == {"0", "1", "2", "3", "4", "5", "6", "7", "8", "9"}
Whitespace == {" ", "\t", "\r"}

CharAt(s, i) == SubSeq(s, i, i)

\* Python's `sub in s` on strings
Contains(s, sub) ==
    \E i \in 1..(Len(s) - Len(sub) + 1) : SubSeq(s, i, i + Len(sub) - 1) = sub

\* Python's `x in lst` on a list
InList(x, lst) == \E i \in 1..Len(lst) : lst[i] = x

HasDigit(s) == \E i \in 1..Len(s) : CharAt(s, i) \in Digits

RECURSIVE KeepChars(_, _)
\* re.sub of every character outside `keep` by nothing
KeepChars(s, keep) ==
    IF Len(s) = 0 THEN ""
    ELSE IF Head(s) \in keep THEN Head(s) \o KeepChars(Tail(s), keep)
    ELSE KeepChars(Tail(s), keep)

DigitValue(c) == CHOOSE d \in 0..9 : CharAt("0123456789", d + 1) = c

RECURSIVE DecimalValue(_)
DecimalValue(s) ==
    IF Len(s) = 0 THEN 0
    ELSE 10 * DecimalValue(SubSeq(s, 1, Len(s) - 1)) + DigitValue(CharAt(s, Len(s)))

AllDigits(s) == Len(s) > 0 /\ \A i \in 1..Len(s) : CharAt(s, i) \in Digits

\* the strings int() accepts among those made of digits and hyphens
IsIntLiteral(s) ==
    \/ AllDigits(s)
    \/ Len(s) > 1 /\ CharAt(s, 1) = "-" /\ AllDigits(Tail(s))

PyInt(s) == IF CharAt(s, 1) = "-" THEN 0 - DecimalValue(Tail(s)) ELSE DecimalValue(s)

RECURSIVE SplitOn(_, _)
\* str.split(sep) for a one-character sep
SplitOn(s, sep) ==
    IF \A i \in 1..Len(s) : CharAt(s, i) # sep THEN <<s>>
    ELSE LET k == CHOOSE i \in 1..Len(s) :
                      /\ CharAt(s, i) = sep
                      /\ \A j \in 1..(i - 1) : CharAt(s, j) # sep
         IN <<SubSeq(s, 1, k - 1)>> \o SplitOn(SubSeq(s, k + 1, Len(s)), sep)

RECURSIVE SplitWords(_)
\* str.split(): the maximal runs of non-whitespace characters
SplitWords(s) ==
    IF Len(s) = 0 THEN <<>>
    ELSE IF CharAt(s, 1) \in Whitespace THEN SplitWords(Tail(s))
    ELSE LET ends == {i \in 1..Len(s) : CharAt(s, i) \in Whitespace}
             k == IF ends = {} THEN Len(s) + 1
                  ELSE CHOOSE i \in ends : \A j \in ends : i <= j
         IN <<SubSeq(s, 1, k - 1)>> \o SplitWords(SubSeq(s, k, Len(s)))

RECURSIVE JoinReprs(_)
JoinReprs(tokens) ==
    IF Len(tokens) = 0 THEN ""
    ELSE IF Len(tokens) = 1 THEN "'" \o tokens[1] \o "'"
    ELSE "'" \o tokens[1] \o "', " \o JoinReprs(Tail(tokens))

\* str(sublist) of a list of strings
PyStr(tokens) == "[" \o JoinReprs(tokens) \o "]"

-----------------------------------------------------------------------------
(* Numbers *)

Abs(n) == IF n < 0 THEN 0 - n ELSE n

RECURSIVE GCD(_, _)
GCD(a, b) == IF b = 0 THEN a ELSE GCD(b, a % b)

Rat(n, d) ==
    LET g == GCD(Abs(n), Abs(d))
        s == IF d < 0 THEN 0 - 1 ELSE 1
    IN <<(s * n) \div g, (s * d) \div g>>

RInt(n) == <<n, 1>>
RAdd(x, y) == Rat(x[1] * y[2] + y[1] * x[2], x[2] * y[2])
RMul(x, y) == Rat(x[1] * y[1], x[2] * y[2])
RDiv(x, y) == Rat(x[1] * y[2], x[2] * y[1])
RECURSIVE FractionLess(_, _, _, _)
\* a/b < c/d for b, d > 0, by integer parts and then the inverted remainders, so
\* that no product is formed
FractionLess(a, b, c, d) ==
    IF a \div b # c \div d THEN a \div b < c \div d
    ELSE IF c % d = 0 THEN FALSE
    ELSE IF a % b = 0 THEN TRUE
    ELSE FractionLess(d, c % d, b, a % b)

RLess(x, y) == FractionLess(x[1], x[2], y[1], y[2])
RLeq(x, y) == ~RLess(y, x)
RIsZero(x) == x[1] = 0

RECURSIVE RSum(_)
RSum(xs) == IF Len(xs) = 0 THEN RInt(0) ELSE RAdd(xs[1], RSum(Tail(xs)))

-----------------------------------------------------------------------------
(* extract_stats: tokenising, classification and the type-specific filter *)

RECURSIVE KeepNonEmpty(_)
KeepNonEmpty(lines) ==
    IF Len(lines) = 0 THEN <<>>
    ELSE IF SplitWords(lines[1]) = <<>> THEN KeepNonEmpty(Tail(lines))
    ELSE <<SplitWords(lines[1])>> \o KeepNonEmpty(Tail(lines))

\* [line.strip().split() for line in data_block.split('\n') if line.strip()]
TokenLines(text) == KeepNonEmpty(SplitOn(text, "\n"))

AnyLine(lines, token) == \E i \in 1..Len(lines) : InList(token, lines[i])

esBool(lines) == AnyLine(lines, "Energy")
chestBool(lines) == AnyLine(lines, "Body")
martBool(lines) == AnyLine(lines, "Damage:")
eleBool(lines) ==
    \E i \in 1..Len(lines) :
        \E damage_type \in {"Fire", "Cold", "Lightning", "Elemental"} :
            InList(damage_type, lines[i])

Classify(lines) ==
    [es |-> esBool(lines), chest |-> chestBool(lines),
     mart |-> martBool(lines), ele |-> eleBool(lines)]

\* the filter with the parentheses of line 60 left out
KeepEnergyShieldNoParens(sublist) ==
    \/ InList("Energy", sublist) /\ InList("Shield", sublist)
    \/ /\ InList("Shield:", sublist)
       /\ ~InList("Recharge", sublist)
       /\ ~InList("maximum", sublist)

KeepEnergyShield(sublist) ==
    /\ \/ InList("Energy", sublist) /\ InList("Shield", sublist)
       \/ InList("Shield:", sublist)
    /\ ~InList("Recharge", sublist)
    /\ ~InList("maximum", sublist)

KeepWeaponElemental(sublist) ==
    \/ InList("Damage:", sublist)
    \/ InList("Attacks", sublist)
    \/ InList("increased", sublist) /\ ~InList("Adds", sublist)

KeepWeaponPhysical(sublist) ==
    \/ InList("Damage:", sublist) /\ InList("Physical", sublist)
    \/ InList("Attacks", sublist)
    \/ InList("increased", sublist) /\ ~InList("Adds", sublist)

KeepEvasion(sublist) == InList("Evasion", sublist) /\ ~InList("to", sublist)

\* the if / elif / else of extract_stats that picks the filter
FilterBranch(bools) ==
    IF bools.es THEN "energy_shield"
    ELSE IF bools.mart THEN (IF bools.ele THEN "weapon_elemental" ELSE "weapon_physical")
    ELSE "evasion"

KeepLine(branch, sublist) ==
    CASE branch = "energy_shield" -> KeepEnergyShield(sublist)
      [] branch = "weapon_elemental" -> KeepWeaponElemental(sublist)
      [] branch = "weapon_physical" -> KeepWeaponPhysical(sublist)
      [] OTHER -> KeepEvasion(sublist)

RECURSIVE FilterLines(_, _)
FilterLines(lines, branch) ==
    IF Len(lines) = 0 THEN <<>>
    ELSE IF KeepLine(branch, lines[1]) THEN <<lines[1]>> \o FilterLines(Tail(lines), branch)
    ELSE FilterLines(Tail(lines), branch)

\* what extract_stats returns for the text monitor_clipboard gave it
extract_stats(text) ==
    LET lines == TokenLines(text)
        bools == Classify(lines)
    IN [data |-> FilterLines(lines, FilterBranch(bools)), bools |-> bools]

-----------------------------------------------------------------------------
(* extract_armor *)

\* the loop body without the percentage branch
ArmorItemNoPercent(sublist) ==
    LET item == PyStr(sublist)
        number == KeepChars(item, Digits)
    IN IF ~HasDigit(item) THEN <<>> ELSE <<RInt(DecimalValue(number))>>

\* the number one item contributes, or <<>> when it holds no digit
ArmorItem(sublist) ==
    LET item == PyStr(sublist)
        number == KeepChars(item, Digits)
    IN IF ~HasDigit(item) THEN <<>>
       ELSE IF Contains(item, "%") THEN <<Rat(DecimalValue(number), 100)>>
       ELSE <<RInt(DecimalValue(number))>>

RECURSIVE extract_armor(_)
extract_armor(sublists) ==
    IF Len(sublists) = 0 THEN <<>>
    ELSE ArmorItem(sublists[1]) \o extract_armor(Tail(sublists))

-----------------------------------------------------------------------------
(* extract_weapon *)

NoNumbers == [physical |-> <<>>, elemental |-> <<>>, speed |-> <<>>]

\* the end of the maximal run of digits that starts at position p of s
DigitRunEnd(s, p) ==
    CHOOSE q \in p..Len(s) :
        /\ \A j \in p..q : CharAt(s, j) \in Digits
        /\ (q = Len(s) \/ CharAt(s, q + 1) \notin Digits)

\* whether the pattern \d+-\d+ matches at position p of s
RangeMatchesAt(s, p) ==
    /\ p <= Len(s)
    /\ CharAt(s, p) \in Digits
    /\ LET q == DigitRunEnd(s, p)
       IN q + 2 <= Len(s) /\ CharAt(s, q + 1) = "-" /\ CharAt(s, q + 2) \in Digits

RECURSIVE FindRanges(_, _)
\* re.findall(r'(\d+-\d+)', s) from position p on: leftmost, greedy, not overlapping
FindRanges(s, p) ==
    IF p > Len(s) THEN <<>>
    ELSE IF RangeMatchesAt(s, p)
         THEN LET q == DigitRunEnd(s, p)
                  r == DigitRunEnd(s, q + 2)
              IN <<SubSeq(s, p, r)>> \o FindRanges(s, r + 1)
         ELSE FindRanges(s, p + 1)

\* start + end, the division by 2 forgotten
RangeSum(range) ==
    LET parts == SplitOn(range, "-")
    IN RInt(DecimalValue(parts[1]) + DecimalValue(parts[2]))

\* (start + end) / 2 of a text "start-end"
RangeMean(range) ==
    LET parts == SplitOn(range, "-")
    IN Rat(DecimalValue(parts[1]) + DecimalValue(parts[2]), 2)

RECURSIVE SumOfMeans(_)
SumOfMeans(ranges) ==
    IF Len(ranges) = 0 THEN RInt(0)
    ELSE RAdd(RangeMean(ranges[1]), SumOfMeans(Tail(ranges)))

Ok(numbers) == [error |-> "none", numbers |-> numbers]
Raise(kind, numbers) == [error |-> kind, numbers |-> numbers]

\* one pass of the loop body of extract_weapon
WeaponItem(numbers, sublist) ==
    LET item == PyStr(sublist)
        number == KeepChars(item, Digits \cup {"-"})
        parts == SplitOn(number, "-")
    IN IF ~HasDigit(item) THEN Ok(numbers)
       ELSE IF Contains(item, "Elemental") /\ Contains(item, "-")
       THEN Ok([numbers EXCEPT !.elemental = Append(@, SumOfMeans(FindRanges(item, 1)))])
       ELSE IF Contains(item, "%")
       THEN IF ~Contains(item, "Physical") THEN Ok(numbers)
            ELSE IF ~IsIntLiteral(number) THEN Raise("ValueError", numbers)
            ELSE Ok([numbers EXCEPT !.physical = Append(@, Rat(PyInt(number), 100))])
       ELSE IF Contains(item, "-")
       THEN IF Len(parts) # 2 \/ ~AllDigits(parts[1]) \/ ~AllDigits(parts[2])
            THEN Raise("ValueError", numbers)
            ELSE IF Contains(item, "Damage") /\ Contains(item, "Physical")
            THEN Ok([numbers EXCEPT !.physical = Append(@, RangeMean(number))])
            ELSE IF /\ Contains(item, "Damage")
                    /\ \E d \in {"Fire", "Cold", "Lightning"} : Contains(item, d)
            THEN Ok([numbers EXCEPT !.elemental = Append(@, RangeMean(number))])
            ELSE Ok(numbers)
       ELSE IF Contains(item, "Second:")
       THEN Ok([numbers EXCEPT !.speed = Append(@, Rat(PyInt(number), 100))])
       ELSE Ok(numbers)

RECURSIVE WeaponLoop(_, _)
WeaponLoop(numbers, sublists) ==
    IF Len(sublists) = 0 THEN Ok(numbers)
    ELSE LET r == WeaponItem(numbers, sublists[1])
         IN IF r.error # "none" THEN r ELSE WeaponLoop(r.numbers, Tail(sublists))

\* the dict of three lists is never empty, so the [0] default of the code is dead
extract_weapon(sublists) == WeaponLoop(NoNumbers, sublists)

-----------------------------------------------------------------------------
(* The evaluators *)

\* the two factors exchanged
ArmorFactorSwapped(check) == IF check THEN Rat(2, 10) ELSE Rat(4, 10)

\* fac = 0.4 if check else 0.2
ArmorFactor(check) == IF check THEN Rat(4, 10) ELSE Rat(2, 10)

ArmorFormula(base, increase, factor) ==
    RMul(RMul(RDiv(base, RAdd(increase, RInt(1))),
              RAdd(RAdd(increase, RInt(1)), factor)),
         Rat(12, 10))

flippid_armor(numbers, check) ==
    IF Len(numbers) = 0 THEN [error |-> "IndexError", value |-> <<>>]
    ELSE LET base == numbers[1]
             increase == IF Len(numbers) = 2 THEN numbers[2] ELSE RInt(0)
         IN IF RIsZero(RAdd(increase, RInt(1)))
            THEN [error |-> "ZeroDivisionError", value |-> <<>>]
            ELSE [error |-> "none",
                  value |-> <<ArmorFormula(base, increase, ArmorFactor(check))>>]

flippid_mart(numbers) ==
    IF Len(numbers.speed) = 0 THEN [error |-> "IndexError", value |-> <<>>]
    ELSE IF Len(numbers.physical) = 0 THEN [error |-> "IndexError", value |-> <<>>]
    ELSE LET ele == RSum(numbers.elemental)
             atk == numbers.speed[1]
             increase == IF Len(numbers.physical) > 1 THEN numbers.physical[2] ELSE RInt(0)
             dmg == numbers.physical[1]
             edps == RMul(ele, atk)
         IN IF RIsZero(RAdd(increase, RInt(1)))
            THEN [error |-> "ZeroDivisionError", value |-> <<>>]
            ELSE LET pdps == RMul(ArmorFormula(dmg, increase, Rat(4, 10)), atk)
                 IN [error |-> "none", value |-> <<pdps, edps, RAdd(edps, pdps)>>]

-----------------------------------------------------------------------------
(* The texts an external writer can put in the clipboard *)

RECURSIVE Decimal(_)
\* str(n) for n >= 0
Decimal(n) ==
    IF n < 10 THEN CharAt("0123456789", n + 1)
    ELSE Decimal(n \div 10) \o CharAt("0123456789", (n % 10) + 1)

LinePool ==
    { "Evasion Rating: 150 (+20%)",
      "Evasion Rating: 150",
      "20% increased Evasion Rating",
      "+15 to Evasion Rating",
      "Body Armour",
      "Energy Shield: 100",
      "30% increased Energy Shield",
      "+20 to maximum Energy Shield",
      "Energy Shield Recharge Rate: 40%",
      "Physical Damage: 10-20",
      "Attacks per Second: 1.50",
      "40% increased Physical Damage",
      "Fire Damage: 5-9",
      "Elemental Damage: 5-9, 2-4",
      "Adds 3 to 5 increased Attacks",
      "Physical Damage: 10-20-30" }

RECURSIVE JoinLines(_)
JoinLines(lines) ==
    IF Len(lines) = 0 THEN ""
    ELSE IF Len(lines) = 1 THEN lines[1]
    ELSE lines[1] \o "\n" \o JoinLines(Tail(lines))

\* the sequences of at most n lines of the pool
RECURSIVE LineSeqs(_)
LineSeqs(n) ==
    IF n = 0 THEN {<<>>}
    ELSE LET shorter == LineSeqs(n - 1)
         IN shorter \cup {Append(q, l) : q \in shorter, l \in LinePool}

Distinct(q) == \A i, j \in 1..Len(q) : i # j => q[i] # q[j]

PoolBlocks == {JoinLines(q) : q \in {x \in LineSeqs(MaxLines) : Len(x) > 0 /\ Distinct(x)}}

DamageValues == (0..MaxDamage) \cup {10, 20}
SpeedValues == {0, 125, 150}
ArmorValues == (0..MaxArmor) \cup {77, 150}
PercentValues == {0, 20, 100}

PhysicalLine(a, b) == "Physical Damage: " \o Decimal(a) \o "-" \o Decimal(b)
SpeedLine(s) == "Attacks per Second: " \o Decimal(s)
WeaponBlock(a, b, s) == PhysicalLine(a, b) \o "\n" \o SpeedLine(s)
WeaponBlockSpeedFirst(a, b, s) == SpeedLine(s) \o "\n" \o PhysicalLine(a, b)

WeaponBlocks ==
    {WeaponBlock(a, b, s) : a \in DamageValues, b \in DamageValues, s \in SpeedValues}
    \cup {WeaponBlockSpeedFirst(a, b, s) :
              a \in DamageValues, b \in DamageValues, s \in SpeedValues}

EvasionLine(n) == "Evasion Rating: " \o Decimal(n)
IncreaseLine(p) == Decimal(p) \o "% increased Evasion Rating"

ArmorBlocks ==
    {EvasionLine(n) : n \in ArmorValues}
    \cup {EvasionLine(n) \o "\n" \o IncreaseLine(p) : n \in ArmorValues, p \in PercentValues}
    \cup {"Body Armour\n" \o EvasionLine(n) \o "\n" \o IncreaseLine(p) :
              n \in ArmorValues, p \in PercentValues}

\* the blocks one cycle is run on
CycleBlocks == PoolBlocks \cup WeaponBlocks \cup ArmorBlocks

\* the blocks the external writer of the driver specification copies
DriverBlocks ==
    { "",
      "Evasion Rating: 150\n20% increased Evasion Rating",
      "Physical Damage: 10-20\nAttacks per Second: 150",
      "Physical Damage: 10-20",
      "Physical Damage: 10-20-30\nAttacks per Second: 150",
      "Body Armour\nEvasion Rating: 77" }

-----------------------------------------------------------------------------
(* The clipboard and the watcher *)

EmptyClipboard == [text |-> "", id |-> 0]

\* a clear that leaves the clipboard as it is
clear_clipboard_noop(clip) == clip

\* pyperclip.copy('')
clear_clipboard(clip) == EmptyClipboard

\* a baseline that is not read from the clipboard
BaselineEmpty(clip) == ""

\* last_clipboard_text = pyperclip.paste()
Baseline(clip) == clip.text

\* current_clipboard_text != last_clipboard_text
Changed(current, last) == current # last

NoExtract == [list |-> <<>>, physical |-> <<>>, elemental |-> <<>>, speed |-> <<>>]
NoChecks == [es |-> FALSE, chest |-> FALSE, mart |-> FALSE, ele |-> FALSE]
NoOutput == [kind |-> "none", error |-> "none"]
Running == 0 - 1

\* The positions of the driver.  "monitor_start", "monitor_poll", "clear" and
\* "parse" are inside the try of extract_stats; "extract" and "evaluate" are in
\* main, after extract_stats returned (print(data), the dispatch, the extractor,
\* the evaluator and the prints).  The step that ends a cycle includes the jump
\* back to the top of the loop and the entry into extract_stats.
InMain == {"extract", "evaluate"}
InExtractStats == {"monitor_start", "monitor_poll", "clear", "parse"}

Range(q) == {q[i] : i \in 1..Len(q)}

Init ==
    /\ clipboard = EmptyClipboard
    /\ pc = "monitor_start"
    /\ last_clipboard_text = ""
    /\ data_block = ""
    /\ block_id = 0
    /\ data = <<>>
    /\ checks = NoChecks
    /\ extracted_numbers = NoExtract
    /\ fac = RInt(0)
    /\ result = <<>>
    /\ output = NoOutput
    /\ exit_code = Running
    /\ interrupted = FALSE
    /\ nwrites = 0
    /\ returned = <<>>
    /\ parsed = <<>>
    /\ erased = {}
    /\ absorbed = {}

\* another program, or the user, copies a text
Write(text) ==
    /\ nwrites < MaxWrites
    /\ nwrites' = nwrites + 1
    /\ clipboard' = [text |-> text, id |-> nwrites + 1]
    /\ UNCHANGED <<pc, last_clipboard_text, data_block, block_id, data, checks,
                   extracted_numbers, fac, result, output, exit_code, interrupted,
                   returned, parsed, erased, absorbed>>

\* monitor_clipboard reads its baseline
MonitorStart ==
    /\ pc = "monitor_start"
    /\ last_clipboard_text' = Baseline(clipboard)
    /\ absorbed' = absorbed \cup ({clipboard.id} \ {0})
    /\ pc' = "monitor_poll"
    /\ UNCHANGED <<clipboard, data_block, block_id, data, checks, extracted_numbers,
                   fac, result, output, exit_code, interrupted, nwrites, returned,
                   parsed, erased>>

\* a poll that sees a change: monitor_clipboard returns the current text
MonitorReturn ==
    /\ pc = "monitor_poll"
    /\ Changed(clipboard.text, last_clipboard_text)
    /\ data_block' = clipboard.text
    /\ block_id' = clipboard.id
    /\ returned' = Append(returned, clipboard.id)
    /\ pc' = "clear"
    /\ UNCHANGED <<clipboard, last_clipboard_text, data, checks, extracted_numbers,
                   fac, result, output, exit_code, interrupted, nwrites, parsed,
                   erased, absorbed>>

\* a poll that sees no change: sleep, then poll again
MonitorSleep ==
    /\ pc = "monitor_poll"
    /\ ~Changed(clipboard.text, last_clipboard_text)
    /\ UNCHANGED vars

\* extract_stats clears the clipboard
Clear ==
    /\ pc = "clear"
    /\ clipboard' = clear_clipboard(clipboard)
    /\ erased' = erased \cup ({clipboard.id} \ {0, block_id})
    /\ pc' = "parse"
    /\ UNCHANGED <<last_clipboard_text, data_block, block_id, data, checks,
                   extracted_numbers, fac, result, output, exit_code, interrupted,
                   nwrites, returned, parsed, absorbed>>

\* extract_stats tokenises, classifies and filters the block, and returns
Parse ==
    /\ pc = "parse"
    /\ LET r == extract_stats(data_block)
       IN /\ data' = r.data
          /\ checks' = r.bools
    /\ parsed' = Append(parsed, block_id)
    /\ pc' = "extract"
    /\ UNCHANGED <<clipboard, last_clipboard_text, data_block, block_id,
                   extracted_numbers, fac, result, output, exit_code, interrupted,
                   nwrites, returned, erased, absorbed>>

\* a dispatch that treats energy-shield blocks as body armor
DispatchEnergyAsChest(bools) ==
    IF bools.mart THEN "weapon" ELSE IF bools.chest \/ bools.es THEN "chest" ELSE "other"

\* main's if / elif / else: which extractor and evaluator, and which `check`
Dispatch(bools) ==
    IF bools.mart THEN "weapon" ELSE IF bools.chest THEN "chest" ELSE "other"

\* a driver without the except clause: the error ends the process
Uncaught(kind) ==
    /\ output' = [kind |-> "error", error |-> kind]
    /\ pc' = "exited"

\* except Exception as e: print(...), and the loop goes on
Caught(kind) ==
    /\ output' = [kind |-> "error", error |-> kind]
    /\ pc' = "monitor_start"

\* main calls the extractor the dispatch picks
Extract ==
    /\ pc = "extract"
    /\ IF Dispatch(checks) = "weapon"
       THEN LET r == extract_weapon(data)
            IN IF r.error # "none"
               THEN Caught(r.error) /\ UNCHANGED extracted_numbers
               ELSE /\ extracted_numbers' =
                          [list |-> <<>>, physical |-> r.numbers.physical,
                           elemental |-> r.numbers.elemental, speed |-> r.numbers.speed]
                    /\ pc' = "evaluate"
                    /\ UNCHANGED output
       ELSE /\ extracted_numbers' = [NoExtract EXCEPT !.list = extract_armor(data)]
            /\ pc' = "evaluate"
            /\ UNCHANGED output
    /\ UNCHANGED <<clipboard, last_clipboard_text, data_block, block_id, data, checks,
                   fac, result, exit_code, interrupted, nwrites, returned, parsed,
                   erased, absorbed>>

\* main calls the evaluator and prints the result line
Evaluate ==
    /\ pc = "evaluate"
    /\ LET kind == Dispatch(checks)
           r == IF kind = "weapon" THEN flippid_mart(extracted_numbers)
                ELSE flippid_armor(extracted_numbers.list, kind = "chest")
       IN /\ fac' = IF kind = "weapon" THEN fac ELSE ArmorFactor(kind = "chest")
          /\ IF r.error # "none"
             THEN Caught(r.error) /\ UNCHANGED result
             ELSE /\ result' = r.value
                  /\ output' = [kind |-> kind, error |-> "none"]
                  /\ pc' = "monitor_start"
    /\ UNCHANGED <<clipboard, last_clipboard_text, data_block, block_id, data, checks,
                   extracted_numbers, exit_code, interrupted, nwrites, returned,
                   parsed, erased, absorbed>>

\* KeyboardInterrupt inside the try of extract_stats: message, sys.exit(0)
InterruptInExtractStats ==
    /\ pc \in InExtractStats
    /\ interrupted' = TRUE
    /\ output' = [kind |-> "exit_message", error |-> "none"]
    /\ exit_code' = 0
    /\ pc' = "exited"
    /\ UNCHANGED <<clipboard, last_clipboard_text, data_block, block_id, data, checks,
                   extracted_numbers, fac, result, nwrites, returned, parsed, erased,
                   absorbed>>

\* KeyboardInterrupt in main outside extract_stats: `except Exception` does not
\* catch it, the interpreter ends with a traceback and a failure status
InterruptInMain ==
    /\ pc \in InMain
    /\ interrupted' = TRUE
    /\ exit_code' \in {1, 130}
    /\ pc' = "exited"
    /\ UNCHANGED <<clipboard, last_clipboard_text, data_block, block_id, data, checks,
                   extracted_numbers, fac, result, output, nwrites, returned, parsed,
                   erased, absorbed>>

Next ==
    \/ \E text \in DriverBlocks : Write(text)
    \/ MonitorStart
    \/ MonitorReturn
    \/ MonitorSleep
    \/ Clear
    \/ Parse
    \/ Extract
    \/ Evaluate
    \/ InterruptInExtractStats
    \/ InterruptInMain

Spec == Init /\ [][Next]_vars

\* one cycle on every block: the state after monitor_clipboard returned the block
\* and clear_clipboard ran
CycleInit ==
    /\ clipboard = EmptyClipboard
    /\ pc = "parse"
    /\ last_clipboard_text = ""
    /\ data_block \in CycleBlocks
    /\ block_id = 1
    /\ data = <<>>
    /\ checks = NoChecks
    /\ extracted_numbers = NoExtract
    /\ fac = RInt(0)
    /\ result = <<>>
    /\ output = NoOutput
    /\ exit_code = Running
    /\ interrupted = FALSE
    /\ nwrites = 1
    /\ returned = <<1>>
    /\ parsed = <<>>
    /\ erased = {}
    /\ absorbed = {}

CycleNext == Parse \/ Extract \/ Evaluate

CycleSpec == CycleInit /\ [][CycleNext]_vars

-----------------------------------------------------------------------------
(* Vocabulary of the properties *)

\* the driver is back at the top of its loop after a whole cycle
CycleDone == pc = "monitor_start" /\ Len(parsed) > 0

\* data and checks are those of data_block
AfterParse == pc \in {"extract", "evaluate"} \/ CycleDone

\* the cycle went down the armor path and its extractor has run
ArmorExtracted == (pc = "evaluate" \/ CycleDone) /\ ~checks.mart

\* the cycle printed an armor result
ArmorPrinted == CycleDone /\ output.kind \in {"chest", "other"}

IsSubsequence(sub, full) ==
    \E f \in [1..Len(sub) -> 1..Len(full)] :
        /\ \A i, j \in 1..Len(sub) : i < j => f[i] < f[j]
        /\ \A i \in 1..Len(sub) : sub[i] = full[f[i]]

-----------------------------------------------------------------------------
(* C1 *)

\* C1: an error raised in a cycle is caught and logged and the driver goes back
\* to waiting; a weapon block whose speed bucket is empty makes the weapon
\* evaluator fail, prints no result and leaves the loop running; the process
\* ends only through an interrupt.
DriverCatchesErrors ==
    [][ /\ (pc' = "exited" => interrupted')
        /\ (output' # output /\ output'.kind = "error"
               => pc' = "monitor_start" /\ exit_code' = Running)
        /\ (pc = "evaluate" /\ pc' \notin {"evaluate", "exited"}
               => /\ pc' = "monitor_start"
                  /\ output'.kind \in {"error", "weapon", "chest", "other"})
        /\ ((pc = "evaluate" /\ pc' \notin {"evaluate", "exited"}
                 /\ checks.mart /\ Len(extracted_numbers.speed) = 0)
               => /\ output' = [kind |-> "error", error |-> "IndexError"]
                  /\ result' = result
                  /\ exit_code' = Running) ]_vars

\* a weapon block without a speed line was evaluated, the error was logged and
\* the driver is waiting again
MissingSpeedCaught ==
    /\ CycleDone
    /\ data_block = "Physical Damage: 10-20"
    /\ checks.mart
    /\ Len(extracted_numbers.physical) = 1 /\ Len(extracted_numbers.speed) = 0
    /\ output = [kind |-> "error", error |-> "IndexError"]
    /\ exit_code = Running

-----------------------------------------------------------------------------
(* C2 *)

\* C2: an interrupt at any point of a cycle ends the process with the exit
\* message and exit status 0.
InterruptExitsCleanly ==
    pc = "exited" => exit_code = 0 /\ output.kind = "exit_message"

-----------------------------------------------------------------------------
(* C3 *)

\* C3: the watcher returns only a text that differs from its baseline; the
\* clipboard is reset to empty after every return and before the block is
\* parsed; and every parsed block is one external write, parsed once.
ReadThenClear ==
    [][ /\ (pc = "monitor_poll" /\ pc' = "clear"
               => data_block' # last_clipboard_text /\ data_block' = clipboard.text)
        /\ (pc' = "parse" /\ pc # "parse" => pc = "clear" /\ clipboard' = EmptyClipboard)
        /\ (parsed' # parsed => pc = "parse" /\ parsed' = Append(parsed, block_id))
        /\ Distinct(parsed')
        /\ 0 \notin Range(parsed') ]_vars

\* a block that caused an error is gone from the clipboard and the driver,
\* polling again, has parsed it once
ErrorBlockNotRetried ==
    /\ pc = "monitor_poll"
    /\ output.kind = "error"
    /\ parsed = <<1>>
    /\ clipboard = EmptyClipboard
    /\ last_clipboard_text = ""

-----------------------------------------------------------------------------
(* C4 *)

\* C4 as stated: on the armor path the factor is 0.4 when the block has 'Body'
\* or 'Energy', and 0.2 otherwise.
FactorByBodyOrEnergy ==
    CycleDone /\ ~checks.mart
        => fac = IF checks.chest \/ checks.es THEN Rat(4, 10) ELSE Rat(2, 10)

\* C4 as amended: on the armor path the factor is 0.4 exactly when the block has
\* the token 'Body', and 0.2 otherwise, whatever hasEnergy is.
FactorByBody ==
    CycleDone /\ ~checks.mart
        => fac = IF checks.chest THEN Rat(4, 10) ELSE Rat(2, 10)

\* an energy-shield block without 'Body' was evaluated with factor 0.2
EnergyShieldGetsGenericFactor ==
    /\ ArmorPrinted
    /\ checks.es /\ ~checks.chest
    /\ output.kind = "other"
    /\ fac = Rat(2, 10)

-----------------------------------------------------------------------------
(* C5 *)

RECURSIVE TokenNumbers(_)
\* one number for each digit-bearing token
TokenNumbers(tokens) ==
    IF Len(tokens) = 0 THEN <<>>
    ELSE (IF ~HasDigit(tokens[1]) THEN <<>>
          ELSE <<Rat(DecimalValue(KeepChars(tokens[1], Digits)),
                     IF Contains(tokens[1], "%") THEN 100 ELSE 1)>>)
         \o TokenNumbers(Tail(tokens))

RECURSIVE PerTokenNumbers(_)
PerTokenNumbers(lines) ==
    IF Len(lines) = 0 THEN <<>>
    ELSE TokenNumbers(lines[1]) \o PerTokenNumbers(Tail(lines))

RECURSIVE DigitsOfTokens(_)
DigitsOfTokens(tokens) ==
    IF Len(tokens) = 0 THEN ""
    ELSE KeepChars(tokens[1], Digits) \o DigitsOfTokens(Tail(tokens))

RECURSIVE PerLineNumbers(_)
\* one number for each digit-bearing line: all its digits, read as one integer
PerLineNumbers(lines) ==
    IF Len(lines) = 0 THEN <<>>
    ELSE (IF DigitsOfTokens(lines[1]) = "" THEN <<>>
          ELSE <<Rat(DecimalValue(DigitsOfTokens(lines[1])),
                     IF \E i \in 1..Len(lines[1]) : Contains(lines[1][i], "%")
                     THEN 100 ELSE 1)>>)
         \o PerLineNumbers(Tail(lines))

OneLineExample == "Evasion Rating: 150 (+20%)"
TwoLineExample == "Evasion Rating: 150\n20% increased Evasion Rating"

-----------------------------------------------------------------------------
(* C6 *)

\* C6: a block of one line 'Physical Damage: a-b' and one line 'Attacks per
\* Second: s' yields physical = [(a+b)/2], speed = [s/100], no elemental value,
\* pDPS = ((a+b)/2) * 1.4 * 1.2 * (s/100), eDPS = 0 and total = pDPS; 37.8 for
\* a = 10, b = 20, s = 150.
PhysicalWeaponExample ==
    CycleDone /\ data_block \in WeaponBlocks =>
        /\ \A a \in DamageValues, b \in DamageValues, s \in SpeedValues :
              data_block \in {WeaponBlock(a, b, s), WeaponBlockSpeedFirst(a, b, s)}
                  => /\ extracted_numbers.physical = <<Rat(a + b, 2)>>
                     /\ extracted_numbers.speed = <<Rat(s, 100)>>
                     /\ extracted_numbers.elemental = <<>>
                     /\ output.kind = "weapon"
                     /\ LET pdps == Rat((a + b) * 14 * 12 * s, 2 * 10 * 10 * 100)
                        IN result = <<pdps, RInt(0), pdps>>
        /\ data_block = WeaponBlock(10, 20, 150)
              => result = <<Rat(378, 10), RInt(0), Rat(378, 10)>>

\* the 10-20 at 150 example printed its result
WeaponExampleEvaluated ==
    /\ CycleDone
    /\ data_block = "Physical Damage: 10-20\nAttacks per Second: 150"
    /\ ~checks.ele
    /\ output.kind = "weapon"
    /\ Len(result) = 3

-----------------------------------------------------------------------------
(* C7 *)

CompareBases == {Rat(n, d) : n \in ArmorValues \cup {99, 151}, d \in {1, 100}}

\* C7: for the numbers the armor extractor produced, flippid_armor grows strictly
\* with the base (increase and factor fixed), and its result with check true is
\* at least its result with check false.
ArmorMonotone ==
    ArmorPrinted =>
        LET numbers == extracted_numbers.list
            check == output.kind = "chest"
            With(b) == flippid_armor([numbers EXCEPT ![1] = b], check).value[1]
        IN /\ result = flippid_armor(numbers, check).value
           /\ \A b \in CompareBases :
                 /\ RLess(numbers[1], b) => RLess(result[1], With(b))
                 /\ RLess(b, numbers[1]) => RLess(With(b), result[1])
           /\ RLeq(flippid_armor(numbers, FALSE).value[1],
                   flippid_armor(numbers, TRUE).value[1])
           /\ (RLess(RInt(0), numbers[1])
                  => RLess(flippid_armor(numbers, FALSE).value[1],
                           flippid_armor(numbers, TRUE).value[1]))

\* a body armor with a positive base and a positive increase was evaluated
BodyArmorEvaluated ==
    /\ ArmorPrinted
    /\ output.kind = "chest"
    /\ Len(extracted_numbers.list) = 2
    /\ RLess(RInt(0), extracted_numbers.list[1])
    /\ RLess(RInt(0), extracted_numbers.list[2])

-----------------------------------------------------------------------------
(* C8 *)

\* the weapon filter the claim describes
ClaimedWeaponKeep(sublist, hasElemental) ==
    \/ InList("Damage:", sublist) /\ (hasElemental \/ InList("Physical", sublist))
    \/ InList("Attacks", sublist)
    \/ InList("increased", sublist) /\ ~InList("Adds", sublist)

ClaimedWeaponLines(lines, hasElemental) ==
    SelectSeq(lines, LAMBDA sublist : ClaimedWeaponKeep(sublist, hasElemental))

\* C8: for every block with hasDamageColon, whatever hasEnergy is, the lines
\* handed to the weapon extractor are the weapon-filtered lines of the block.
WeaponFilterAgreesWithDispatch ==
    AfterParse /\ checks.mart
        => /\ Dispatch(checks) = "weapon"
           /\ data = ClaimedWeaponLines(TokenLines(data_block), checks.ele)

-----------------------------------------------------------------------------
(* C9 *)

\* C9: when some line of the block has the token 'Energy', hasEnergy is true,
\* no kept line has 'Recharge' or 'maximum', every kept line has ('Energy' and
\* 'Shield') or 'Shield:', and the kept lines are in their original order.
EnergyShieldFilter ==
    AfterParse =>
        LET lines == TokenLines(data_block)
        IN (\E i \in 1..Len(lines) : InList("Energy", lines[i]))
               => /\ checks.es
                  /\ \A i \in 1..Len(data) :
                        /\ ~InList("Recharge", data[i])
                        /\ ~InList("maximum", data[i])
                        /\ \/ InList("Energy", data[i]) /\ InList("Shield", data[i])
                           \/ InList("Shield:", data[i])
                  /\ IsSubsequence(data, lines)

\* an energy-shield block with a recharge line and a maximum line kept only its
\* shield line
RechargeLineDropped ==
    /\ AfterParse
    /\ checks.es
    /\ Len(TokenLines(data_block)) = 3
    /\ AnyLine(TokenLines(data_block), "Recharge")
    /\ AnyLine(TokenLines(data_block), "maximum")
    /\ data = <<<<"Energy", "Shield:", "100">>>>

-----------------------------------------------------------------------------
(* C10 *)

\* C10: a write that clear_clipboard erased, or that monitor_clipboard took as
\* its baseline, is never returned by the watcher: an erased write is gone from
\* the clipboard, and a baseline write that is still there equals the baseline.
LostWritesNeverReturned ==
    /\ (erased \cup absorbed) \cap Range(returned) = {}
    /\ \A k \in erased : clipboard.id # k
    /\ \A k \in absorbed :
          clipboard.id = k
              => clipboard.text = last_clipboard_text /\ pc \in {"monitor_poll", "exited"}

\* the driver is running, one write was erased by the clear and another became
\* the baseline; neither was returned
WritesLostWhileRunning ==
    /\ pc = "monitor_poll"
    /\ exit_code = Running
    /\ erased # {}
    /\ absorbed # {}
    /\ Len(returned) > 0
    /\ clipboard.id \in absorbed

====
